---- MODULE Spec2Model ----
(***************************************************************************)
(* theanets/activations.py: the activation registry, the build factory     *)
(* with its '+'-composition, and the activation formulas.                  *)
(*                                                                         *)
(* Python strings are sequences of tokens: a token is either a whole name  *)
(* (a registry key, or a name no class declares) or one punctuation        *)
(* character ("+", "(", ")", "[", "]", quotes).  Python values carry       *)
(* their type in the field py.  The tensor x is symbolic, as in Theano:    *)
(* an activation applied to x yields an expression term <<op, args>>.      *)
(***************************************************************************)
EXTENDS Integers, Sequences, FiniteSets

VARIABLES pc, name, kwargs, result, err, lookups, nid, x, out, val

vars == <<pc, name, kwargs, result, err, lookups, nid, x, out, val>>

\* ------------------------------------------------------------------ bounds
\* longest name string handed to build, in tokens ("a+b+c" has 5)
MaxLen == 5
\* numeric inputs range over -MaxAbsX .. MaxAbsX
MaxAbsX == 3

\* ------------------------------------------------------- Python values
PyStr(s) == [py |-> "str", s |-> s]
PyList(items) == [py |-> "list", items |-> items]
None == [py |-> "NoneType"]

Contains(s, c) == \E i \in 1..Len(s) : s[i] = c

RECURSIVE Escape(_)
\* repr's escaping of single quotes inside a single-quoted literal
Escape(s) ==
    IF s = <<>> THEN <<>>
    ELSE (IF Head(s) = "'" THEN <<"\\", "'">> ELSE <<Head(s)>>) \o Escape(Tail(s))

\* repr(str): single quotes unless the string has a ' and no "
Repr(s) ==
    IF Contains(s, "'") /\ ~Contains(s, "\"")
    THEN <<"\"">> \o s \o <<"\"">>
    ELSE <<"'">> \o Escape(s) \o <<"'">>

RECURSIVE JoinRepr(_)
JoinRepr(items) ==
    IF items = <<>> THEN <<>>
    ELSE IF Len(items) = 1 THEN Repr(items[1].s)
    ELSE Repr(items[1].s) \o <<", ">> \o JoinRepr(Tail(items))

\* '%s' % v for a str or a list of str
Str(v) ==
    IF v.py = "str" THEN v.s ELSE <<"[">> \o JoinRepr(v.items) \o <<"]">>

RECURSIVE SplitFrom(_, _)
\* s.split('+') continued: cur is the segment being read
SplitFrom(s, cur) ==
    IF s = <<>> THEN <<cur>>
    ELSE IF Head(s) = "+" THEN <<cur>> \o SplitFrom(Tail(s), <<>>)
    ELSE SplitFrom(Tail(s), Append(cur, Head(s)))

\* split that drops empty segments
SplitSkipEmpty(s) == SelectSeq(SplitFrom(s, <<>>), LAMBDA seg : seg # <<>>)

Split(s) == SplitFrom(s, <<>>)

\* ------------------------------------------------------------ registry
\* the activation classes in definition order, with the keys each declares
\* the classes with the key rect:minmax declared by RectMax
ClassesAliasMoved ==
    << [cls |-> "Linear",        extra |-> {}],
       [cls |-> "Tanh",          extra |-> {}],
       [cls |-> "Logistic",      extra |-> {"sigmoid"}],
       [cls |-> "Softmax",       extra |-> {}],
       [cls |-> "Softplus",      extra |-> {}],
       [cls |-> "Relu",          extra |-> {"rect:min"}],
       [cls |-> "RectMax",       extra |-> {"rect:max", "rect:minmax"}],
       [cls |-> "TruncatedRelu", extra |-> {"trelu"}],
       [cls |-> "NormMean",      extra |-> {"norm:mean"}],
       [cls |-> "NormMax",       extra |-> {"norm:max"}],
       [cls |-> "NormStd",       extra |-> {"norm:std"}],
       [cls |-> "NormZ",         extra |-> {"norm:z"}] >>

Classes ==
    << [cls |-> "Linear",        extra |-> {}],
       [cls |-> "Tanh",          extra |-> {}],
       [cls |-> "Logistic",      extra |-> {"sigmoid"}],
       [cls |-> "Softmax",       extra |-> {}],
       [cls |-> "Softplus",      extra |-> {}],
       [cls |-> "Relu",          extra |-> {"rect:min"}],
       [cls |-> "RectMax",       extra |-> {"rect:max"}],
       [cls |-> "TruncatedRelu", extra |-> {"trelu", "rect:minmax"}],
       [cls |-> "NormMean",      extra |-> {"norm:mean"}],
       [cls |-> "NormMax",       extra |-> {"norm:max"}],
       [cls |-> "NormStd",       extra |-> {"norm:std"}],
       [cls |-> "NormZ",         extra |-> {"norm:z"}] >>

\* str.lower() on a name token
Lower(t) ==
    CASE t = "Linear" -> "linear"
      [] t = "Tanh" -> "tanh"
      [] t = "Logistic" -> "logistic"
      [] t = "Softmax" -> "softmax"
      [] t = "Softplus" -> "softplus"
      [] t = "Relu" -> "relu"
      [] t = "ReLU" -> "relu"
      [] t = "RectMax" -> "rectmax"
      [] t = "TruncatedRelu" -> "truncatedrelu"
      [] t = "NormMean" -> "normmean"
      [] t = "NormMax" -> "normmax"
      [] t = "NormStd" -> "normstd"
      [] t = "NormZ" -> "normz"
      [] OTHER -> t

\* the keys a class declares: its lowercased type name and its extra keys
DeclaredKeys(c) == {Lower(c.cls)} \cup {Lower(k) : k \in c.extra}

\* register(keys, constructor) on a registry [keys, cls, err]
Register(reg, c) ==
    IF reg.err # "None" THEN reg
    ELSE IF DeclaredKeys(c) \cap reg.keys # {}
    THEN [reg EXCEPT !.err = "DuplicateKeyError"]
    ELSE [keys |-> reg.keys \cup DeclaredKeys(c),
          cls  |-> [k \in reg.keys \cup DeclaredKeys(c) |->
                       IF k \in reg.keys THEN reg.cls[k] ELSE c.cls],
          err  |-> "None"]

RECURSIVE LoadFrom(_, _)
LoadFrom(reg, cs) ==
    IF cs = <<>> THEN reg ELSE LoadFrom(Register(reg, Head(cs)), Tail(cs))

\* the registry once the module is loaded; nothing changes it afterwards
registry == LoadFrom([keys |-> {}, cls |-> <<>>, err |-> "None"], Classes)

\* a segment as a registry key: one name token lowercased; the empty
\* string and anything longer is a key no class declares
KeyOf(s) == IF Len(s) = 1 THEN Lower(s[1]) ELSE "<unregistered>"

IsRegistered(s) == KeyOf(s) \in registry.keys

\* --------------------------------------------- symbolic tensor expressions
\* a term is <<op, args>>; X is the input tensor
X == <<"x", <<>> >>
K1 == <<"1", <<>> >>
K2 == <<"2", <<>> >>
Eps == <<"1e-6", <<>> >>
Op1(op, a) == <<op, <<a>> >>
Op2(op, a, b) == <<op, <<a, b>> >>
Add(a, b) == Op2("add", a, b)
Sub(a, b) == Op2("sub", a, b)
Div(a, b) == Op2("div", a, b)
Abs(a) == Op1("abs", a)
\* reductions along the last axis, keepdims=True
AxisMax(a) == Op1("max", a)
AxisSum(a) == Op1("sum", a)
AxisMean(a) == Op1("mean", a)
AxisStd(a) == Op1("std", a)

LinearCall(t) == t
TanhCall(t) == Op1("tanh", t)
LogisticCall(t) == Op1("sigmoid", t)
SoftmaxCall(t) ==
    LET z == Op1("exp", Sub(t, AxisMax(t))) IN Div(z, AxisSum(z))
SoftplusCall(t) == Op1("softplus", t)

\* (x - abs(x)) / 2
ReluCallNeg(t) == Div(Sub(t, Abs(t)), K2)

ReluCall(t) == Div(Add(t, Abs(t)), K2)

\* (1 + x + abs(x - 1)) / 2
RectMaxCallPlus(t) == Div(Add(Add(K1, t), Abs(Sub(t, K1))), K2)

RectMaxCall(t) == Div(Sub(Add(K1, t), Abs(Sub(t, K1))), K2)

TruncatedReluCall(t) == Div(Sub(Add(K1, Abs(t)), Abs(Sub(t, K1))), K2)
NormMeanCall(t) == Sub(t, AxisMean(t))
NormMaxCall(t) == LET s == AxisMax(Abs(t)) IN Div(t, Add(s, Eps))
NormStdCall(t) == LET s == AxisStd(t) IN Div(t, Add(s, Eps))
NormZCall(t) ==
    LET c == Sub(t, AxisMean(t))
        s == AxisStd(t)
    IN  Div(c, Add(s, Eps))

\* cls.__call__(self, x), dispatched on the instance's class
ClassCall(cls, t) ==
    CASE cls = "Linear" -> LinearCall(t)
      [] cls = "Tanh" -> TanhCall(t)
      [] cls = "Logistic" -> LogisticCall(t)
      [] cls = "Softmax" -> SoftmaxCall(t)
      [] cls = "Softplus" -> SoftplusCall(t)
      [] cls = "Relu" -> ReluCall(t)
      [] cls = "RectMax" -> RectMaxCall(t)
      [] cls = "TruncatedRelu" -> TruncatedReluCall(t)
      [] cls = "NormMean" -> NormMeanCall(t)
      [] cls = "NormMax" -> NormMaxCall(t)
      [] cls = "NormStd" -> NormStdCall(t)
      [] cls = "NormZ" -> NormZCall(t)

RECURSIVE Apply(_, _)
\* f(t) for an Activation instance or a composed lambda z: b(a(z))
Apply(f, t) ==
    IF f.py = "Activation" THEN ClassCall(f.cls, t)
    ELSE Apply(f.b, Apply(f.a, t))

\* ------------------------------------------- arithmetic on concrete inputs
\* rationals <<n, d>> with d > 0, in lowest terms
RECURSIVE Gcd(_, _)
Gcd(a, b) == IF b = 0 THEN a ELSE Gcd(b, a % b)
AbsInt(n) == IF n < 0 THEN -n ELSE n
Norm(n, d) ==
    LET g == Gcd(AbsInt(n), AbsInt(d))
        sgn == IF d < 0 THEN -1 ELSE 1
    IN  <<sgn * (n \div g), sgn * (d \div g)>>
RatAdd(p, q) == Norm(p[1] * q[2] + q[1] * p[2], p[2] * q[2])
RatSub(p, q) == Norm(p[1] * q[2] - q[1] * p[2], p[2] * q[2])
RatAbs(p) == <<AbsInt(p[1]), p[2]>>
RatDiv(p, q) == Norm(p[1] * q[2], p[2] * q[1])
Rat(n) == <<n, 1>>

\* the operators of the three rectifier formulas
ArithOps == {"x", "1", "2", "add", "sub", "abs", "div"}

RECURSIVE Evaluable(_)
Evaluable(t) ==
    /\ t[1] \in ArithOps
    /\ \A i \in 1..Len(t[2]) : Evaluable(t[2][i])

RECURSIVE Eval(_, _)
\* the value of an arithmetic term at the scalar input v
Eval(t, v) ==
    CASE t[1] = "x" -> Rat(v)
      [] t[1] = "1" -> Rat(1)
      [] t[1] = "2" -> Rat(2)
      [] t[1] = "add" -> RatAdd(Eval(t[2][1], v), Eval(t[2][2], v))
      [] t[1] = "sub" -> RatSub(Eval(t[2][1], v), Eval(t[2][2], v))
      [] t[1] = "abs" -> RatAbs(Eval(t[2][1], v))
      [] t[1] = "div" -> RatDiv(Eval(t[2][1], v), Eval(t[2][2], v))

\* ------------------------------------------------------------- build
\* the outcome of a call: the exception raised (or "None"), the value
\* returned, and the interpreter's counters after it
Ok(v, st) == [err |-> "None", val |-> v, lookups |-> st.lookups, nid |-> st.nid]
Raise(e, st) == [err |-> e, val |-> None, lookups |-> st.lookups, nid |-> st.nid]

\* Activation.__init__(self, name, **kwargs) on a fresh object
ActivationInit(cls, nm, kw, id) ==
    [py |-> "Activation", cls |-> cls, name |-> nm, kwargs |-> kw,
     params |-> <<>>, id |-> id]

\* Activation.build(key, name=..., **kwargs): registry lookup, then the
\* constructor of the class found
ActivationBuild(key, nm, kw, st) ==
    LET looked == [st EXCEPT !.lookups = @ + 1] IN
    IF key.py # "str" THEN Raise("AttributeError", st)
    ELSE IF ~IsRegistered(key.s) THEN Raise("UnknownActivationError", looked)
    ELSE Ok(ActivationInit(registry.cls[KeyOf(key.s)], nm, kw, st.nid),
            [looked EXCEPT !.nid = @ + 1])

\* c = lambda z: a(b(z))
composeSwapped(a, b, id) ==
    [py |-> "function", a |-> b, b |-> a,
     name |-> PyList(<<PyStr(Str(b.name) \o <<"(">> \o Str(a.name) \o <<")">>)>>),
     id |-> id]

\* c = lambda z: b(a(z)); c.name = ['%s(%s)' % (b.name, a.name)]
compose(a, b, id) ==
    [py |-> "function", a |-> a, b |-> b,
     name |-> PyList(<<PyStr(Str(b.name) \o <<"(">> \o Str(a.name) \o <<")">>)>>),
     id |-> id]

RECURSIVE build(_, _, _)

\* build(n, **kwargs) for n in ...
BuildSegmentForwarding(n, kw, st) == build(PyStr(n), kw, st)

\* one element of the generator (build(n) for n in ...): the caller's
\* keyword arguments kw are not passed on
BuildSegment(n, kw, st) == build(PyStr(n), {}, st)

RECURSIVE ReduceSkipping(_, _, _, _)
\* a fold that drops the elements whose construction raised
ReduceSkipping(acc, segs, kw, st) ==
    IF segs = <<>> THEN Ok(acc, st)
    ELSE LET e == BuildSegment(Head(segs), kw, st) IN
         IF e.err # "None" THEN ReduceSkipping(acc, Tail(segs), kw, e)
         ELSE ReduceSkipping(compose(acc, e.val, e.nid), Tail(segs), kw,
                             [e EXCEPT !.nid = @ + 1])

RECURSIVE ReduceFrom(_, _, _, _)
\* functools.reduce after its first element: draw the next element from
\* the generator, fold it into the accumulator, stop at the first exception
ReduceFrom(acc, segs, kw, st) ==
    IF segs = <<>> THEN Ok(acc, st)
    ELSE LET e == BuildSegment(Head(segs), kw, st) IN
         IF e.err # "None" THEN Raise(e.err, e)
         ELSE ReduceFrom(compose(acc, e.val, e.nid), Tail(segs), kw,
                         [e EXCEPT !.nid = @ + 1])

\* functools.reduce(compose, (build(n) for n in segs)): the first element
\* is the initial accumulator; an empty sequence is a TypeError
Reduce(segs, kw, st) ==
    IF segs = <<>> THEN Raise("TypeError", st)
    ELSE LET first == BuildSegment(Head(segs), kw, st) IN
         IF first.err # "None" THEN Raise(first.err, first)
         ELSE ReduceFrom(first.val, Tail(segs), kw, first)

\* build that constructs a new instance from the one passed in
buildReconstructing(arg, kw, st) ==
    IF arg.py = "Activation" THEN ActivationBuild(arg.name, arg.name, kw, st)
    ELSE IF arg.py # "str" THEN Raise("TypeError", st)
    ELSE IF Contains(arg.s, "+") THEN Reduce(Split(arg.s), kw, st)
    ELSE ActivationBuild(arg, arg, kw, st)

\* build(name, **kwargs); st holds the counters [lookups, nid] before the
\* call.  A value that is neither an Activation nor a str (the lambda of an
\* earlier compound build) fails at '+' in name with a TypeError
build(arg, kw, st) ==
    IF arg.py = "Activation" THEN Ok(arg, st)
    ELSE IF arg.py # "str" THEN Raise("TypeError", st)
    ELSE IF Contains(arg.s, "+") THEN Reduce(Split(arg.s), kw, st)
    ELSE ActivationBuild(arg, arg, kw, st)

\* ------------------------------------------------------------- inputs
\* where the '+' of a string are: one mark per token, no two name tokens
\* adjacent (two adjacent names are one longer name)
Shapes ==
    {sh \in UNION {[1..n -> {"+", "name"}] : n \in 0..MaxLen} :
        \A i \in 1..(Len(sh) - 1) : ~(sh[i] = "name" /\ sh[i + 1] = "name")}

NameCount(sh, i) == Cardinality({j \in 1..i : sh[j] = "name"})

\* the string of shape sh whose k-th name token is f[k]
Fill(sh, f) ==
    [i \in 1..Len(sh) |-> IF sh[i] = "+" THEN "+" ELSE f[NameCount(sh, i)]]

\* every registered key, a key in mixed case, and a name no class declares
NameTokens == registry.keys \cup {"ReLU", "not_a_real_activation"}

\* the keys of the classes whose formula is plain arithmetic
ArithClasses == {"Linear", "Relu", "RectMax", "TruncatedRelu"}
ArithTokens == {k \in registry.keys : registry.cls[k] \in ArithClasses}

KwargsChoices == {{}, {<<"alpha", "0.1">>}}

Inputs == {[py |-> "int", n |-> n] : n \in (0 - MaxAbsX)..MaxAbsX}

\* ------------------------------------------------------------ actions
\* a caller runs build(arg, **kw) and keeps what it returns or raises
CallBuild(arg, kw, done) ==
    \E r \in {build(arg, kw, [lookups |-> lookups, nid |-> nid])} :
    /\ kwargs' = kw
    /\ result' = r.val
    /\ err' = r.err
    /\ lookups' = r.lookups
    /\ nid' = r.nid
    /\ pc' = IF r.err = "None" THEN done ELSE "failed"

\* build("<name string>", **kw)
BuildName ==
    /\ pc = "idle"
    /\ \E sh \in Shapes, kw \in KwargsChoices :
          \E f \in [1..NameCount(sh, Len(sh)) -> NameTokens] :
             /\ name' = PyStr(Fill(sh, f))
             /\ CallBuild(PyStr(Fill(sh, f)), kw, "built")
    /\ UNCHANGED <<x, out, val>>

\* build("<name string>") over the arithmetic activations only
BuildArith ==
    /\ pc = "idle"
    /\ \E sh \in Shapes :
          \E f \in [1..NameCount(sh, Len(sh)) -> ArithTokens] :
             /\ name' = PyStr(Fill(sh, f))
             /\ CallBuild(PyStr(Fill(sh, f)), {}, "built")
    /\ UNCHANGED <<x, out, val>>

\* build(<what build returned>, **kw)
BuildAgain ==
    /\ pc = "built"
    /\ \E kw \in KwargsChoices : CallBuild(result, kw, "rebuilt")
    /\ UNCHANGED <<name, x, out, val>>

\* result(x): the expression for the tensor; its value when x is a number
Call ==
    /\ pc \in {"built", "rebuilt"}
    /\ out' = Apply(result, X)
    /\ val' = IF x.py = "int" /\ Evaluable(Apply(result, X))
              THEN Eval(Apply(result, X), x.n) ELSE None
    /\ pc' = "called"
    /\ UNCHANGED <<name, kwargs, result, err, lookups, nid, x>>

Idle ==
    /\ pc = "idle"
    /\ name = None
    /\ kwargs = {}
    /\ result = None
    /\ err = "None"
    /\ lookups = 0
    /\ nid = 0
    /\ out = None
    /\ val = None

\* after the module is loaded; the tensor stays symbolic
Init == Idle /\ x = None

\* after the module is loaded, with a number for the tensor
InitNum == Idle /\ x \in Inputs

Next == BuildName \/ BuildAgain \/ Call

NextNum == BuildArith \/ Call

Spec == Init /\ [][Next]_vars

SpecNum == InitNum /\ [][NextNum]_vars

\* ------------------------------------------------------------ claims
\* build(n) for one segment on its own, outside any composition
BuiltAlone(seg) == build(PyStr(seg), {}, [lookups |-> 0, nid |-> 0]).val

RECURSIVE Pipe(_, _)
\* the activations of segs, each built alone, applied one after another
Pipe(segs, t) ==
    IF segs = <<>> THEN t
    ELSE Pipe(Tail(segs), Apply(BuiltAlone(Head(segs)), t))

Compound == name.py = "str" /\ Contains(name.s, "+")
Single == name.py = "str" /\ ~Contains(name.s, "+")

\* C1: the activation built from "n1+n2+...+nk" applies the segments
\* left to right: its output on x is build(nk)(...build(n2)(build(n1)(x)))
C1_LeftToRight ==
    (pc = "called" /\ Compound) => out = Pipe(Split(name.s), X)

C1_Witness ==
    /\ pc = "called"
    /\ name = PyStr(<<"tanh", "+", "relu", "+", "norm:z">>)
    /\ out = NormZCall(ReluCall(TanhCall(X)))
    /\ out # TanhCall(ReluCall(NormZCall(X)))

\* C2: whatever build returns is an Activation instance with name, kwargs
\* and params, and handing it back to build does not fail
C2_ReturnsActivation ==
    /\ pc \in {"built", "rebuilt", "called"} =>
          /\ result.py = "Activation"
          /\ {"name", "kwargs", "params"} \subseteq DOMAIN result
    /\ err # "TypeError"

RECURSIVE Wrapped(_)
\* "c(b(a))" for the segments a, b, c
Wrapped(segs) ==
    IF Len(segs) = 1 THEN segs[1]
    ELSE segs[Len(segs)] \o <<"(">> \o Wrapped(SubSeq(segs, 1, Len(segs) - 1))
         \o <<")">>

\* C3: the name of a composed activation is the string "<b.name>(<a.name>)",
\* wrapped again in the same way at each further compose step
C3_NameIsNestedString ==
    (pc = "built" /\ Compound) => result.name = PyStr(Wrapped(Split(name.s)))

\* C4: a name with a segment that is no registered key, at any position,
\* makes build raise the unknown-activation error and return nothing
C4_UnknownSegmentRaises ==
    (name.py = "str" /\ \E i \in 1..Len(Split(name.s)) :
                            ~IsRegistered(Split(name.s)[i]))
    => /\ pc = "failed"
       /\ err = "UnknownActivationError"
       /\ result = None

C4_Witness ==
    /\ pc = "failed"
    /\ name = PyStr(<<"relu", "+", "tanh", "+", "not_a_real_activation">>)
    /\ lookups = 3

\* a '+' at either end, or two in a row
HasEmptySegment(s) ==
    /\ s # <<>>
    /\ \/ s[1] = "+"
       \/ s[Len(s)] = "+"
       \/ \E i \in 1..(Len(s) - 1) : s[i] = "+" /\ s[i + 1] = "+"

\* C5 as stated: an empty segment is rejected with EmptySegmentError
C5_EmptySegmentError ==
    (name.py = "str" /\ HasEmptySegment(name.s))
    => /\ pc = "failed"
       /\ err = "EmptySegmentError"
       /\ result = None

\* C5 amended: a '+'-joined name with an empty segment is rejected with the
\* unknown-activation error, the one an unregistered name gets, and build
\* returns nothing
C5_EmptySegmentUnknown ==
    (name.py = "str" /\ HasEmptySegment(name.s))
    => /\ pc = "failed"
       /\ err = "UnknownActivationError"
       /\ result = None

C5_Witness ==
    /\ pc = "failed"
    /\ name = PyStr(<<"relu", "+", "+", "tanh">>)
    /\ err = "UnknownActivationError"

\* C6: build called with an Activation instance returns that very object,
\* whatever keywords come with it, constructs nothing and looks nothing up
C6_InstancePassThrough ==
    [][(pc = "built" /\ result.py = "Activation" /\ pc' \in {"rebuilt", "failed"})
       => /\ pc' = "rebuilt"
          /\ result' = result
          /\ lookups' = lookups
          /\ nid' = nid]_vars

C6_Witness ==
    /\ pc = "rebuilt"
    /\ kwargs # {}
    /\ result.py = "Activation"
    /\ result.kwargs = {}
    /\ lookups = 1

RECURSIVE Leaves(_)
\* the Activation instances a built value is made of
Leaves(f) ==
    IF f.py = "Activation" THEN {f} ELSE Leaves(f.a) \cup Leaves(f.b)

Max(a, b) == IF a > b THEN a ELSE b
Min(a, b) == IF a < b THEN a ELSE b

\* the numerator of the division an arithmetic activation ends with
Numerator == Eval(out[2][1], x.n)

\* C8: on integers relu is max(x, 0), rectmax is min(x, 1), truncatedrelu
\* is clamp(x, 0, 1), and the numerator halved is always even
C8_RectifierFormulas ==
    (pc = "called" /\ name.s \in {<<"relu">>, <<"rectmax">>, <<"truncatedrelu">>})
    => /\ Numerator[2] = 1
       /\ Numerator[1] % 2 = 0
       /\ name.s = <<"relu">> => val = Rat(Max(x.n, 0))
       /\ name.s = <<"rectmax">> => val = Rat(Min(x.n, 1))
       /\ name.s = <<"truncatedrelu">> => val = Rat(Max(0, Min(x.n, 1)))

C8_Witness ==
    /\ pc = "called"
    /\ name.s = <<"relu">>
    /\ x.n = 0 - 2
    /\ val = Rat(0)

\* the canonical name of each alias
CanonicalOf ==
    [k \in {"sigmoid", "rect:min", "rect:max", "trelu", "rect:minmax",
            "norm:mean", "norm:max", "norm:std", "norm:z"} |->
        CASE k = "sigmoid" -> "logistic"
          [] k = "rect:min" -> "relu"
          [] k = "rect:max" -> "rectmax"
          [] k \in {"trelu", "rect:minmax"} -> "truncatedrelu"
          [] k = "norm:mean" -> "normmean"
          [] k = "norm:max" -> "normmax"
          [] k = "norm:std" -> "normstd"
          [] k = "norm:z" -> "normz"]

NoKeyDeclaredTwice ==
    /\ registry.err = "None"
    /\ \A i, j \in 1..Len(Classes) :
          i # j => DeclaredKeys(Classes[i]) \cap DeclaredKeys(Classes[j]) = {}

\* C9: an alias gives the class and the output of its canonical name, and
\* no key is declared by two classes
C9_AliasEquivalence ==
    /\ NoKeyDeclaredTwice
    /\ (pc = "called" /\ Single /\ Len(name.s) = 1 /\ name.s[1] \in DOMAIN CanonicalOf)
       => /\ result.cls = BuiltAlone(<<CanonicalOf[name.s[1]]>>).cls
          /\ out = Apply(BuiltAlone(<<CanonicalOf[name.s[1]]>>), X)

C9_Witness ==
    /\ pc = "called"
    /\ name.s = <<"rect:minmax">>
    /\ out = TruncatedReluCall(X)

\* C10: relu then rect:max, rect:max then relu, and trelu give the same
\* value on every integer input
C10_RectifiersCommute ==
    (pc = "called" /\ name.s \in {<<"relu", "+", "rect:max">>,
                                   <<"rect:max", "+", "relu">>})
    => val = Eval(Apply(BuiltAlone(<<"trelu">>), X), x.n)

C10_Witness ==
    /\ pc = "called"
    /\ name.s = <<"rect:max", "+", "relu">>
    /\ x.n = 0 - 1
    /\ val = Rat(0)

====
